---------------------------- MODULE Spec2Model ----------------------------
(***************************************************************************)
(* Model of src/src/acme/lets_encrypt.rs: the periodic renewal task        *)
(* (do_update_certificates), the ACME order exchange (new_lets_encrypt),   *)
(* the configuration update (update_certificate_lets_encrypt,              *)
(* handle_successful_renewal) and the HTTP-01 responder                    *)
(* (handle_lets_encrypt).                                                  *)
(*                                                                         *)
(* The renewal task is one sequential async task: `pc` is its position,    *)
(* and each action is the code from one suspension point (await) to the    *)
(* next.  The issuer, the storage, the configuration store and the client  *)
(* connection are the environment: every fallible call draws its outcome   *)
(* with \E.                                                                *)
(***************************************************************************)
EXTENDS Integers, Sequences, FiniteSets, TLC

(***************************************************************************)
(* Bounds of the model.                                                    *)
(***************************************************************************)
\* the host calls the task with count = 0 .. MaxCount
MaxCount == 10
\* DNS names are 1 .. MaxDomains, ordered as their strings are
MaxDomains == 2
\* order.certificate() answers None at most this many times in one attempt
MaxCertPolls == 2

(***************************************************************************)
(* Program constants.                                                      *)
(***************************************************************************)
\* const UPDATE_INTERVAL: u32 = 10
UPDATE_INTERVAL == 10
\* match tries < 10
MAX_TRIES == 10
\* Duration::from_millis(250)
INITIAL_DELAY_MS == 250
\* StatusCode::OK
STATUS_OK == 200
\* util::new_internal_error(500, ..)
STATUS_INTERNAL_ERROR == 500

\* static WELL_KNOWN_PATH_PREFIX: &str = "/.well-known/acme-challenge/"
WELL_KNOWN_PATH_PREFIX ==
    << "/", ".", "w", "e", "l", "l", "-", "k", "n", "o", "w", "n", "/",
       "a", "c", "m", "e", "-", "c", "h", "a", "l", "l", "e", "n", "g", "e", "/" >>

(***************************************************************************)
(* Values.                                                                 *)
(***************************************************************************)
Domains == 1 .. MaxDomains

\* the non-empty domain lists of at most MaxDomains entries (duplicates and
\* every order included)
DomainLists == UNION { [1 .. n -> Domains] : n \in 1 .. MaxDomains }

\* all the domains, in descending (unsorted) order
AllDescending == [i \in 1 .. MaxDomains |-> MaxDomains + 1 - i]

Target(n, ds) == [name |-> n, domains |-> ds]

\* the (name, domains) lists the service may have been constructed with
ParamsChoices ==
    { << >>,
      << Target("n1", AllDescending) >>,
      << Target("n1", << 1 >>), Target("n2", AllDescending) >>,
      << Target("n1", AllDescending), Target("n2", << 1 >>) >> }

\* instant_acme::OrderStatus
OrderStatuses == { "Pending", "Ready", "Processing", "Valid", "Invalid" }
\* instant_acme::AuthorizationStatus
AuthorizationStatuses == { "Pending", "Valid", "Invalid", "Expired" }

(***************************************************************************)
(* Pure helpers.                                                           *)
(***************************************************************************)
RECURSIVE Insert(_, _)
Insert(x, s) ==
    IF s = << >> THEN << x >>
    ELSE IF x <= Head(s) THEN << x >> \o s
    ELSE << Head(s) >> \o Insert(x, Tail(s))

\* Vec<String>::sort(): ascending, duplicates kept
RECURSIVE Sort(_)
Sort(s) == IF s = << >> THEN << >> ELSE Insert(Head(s), Sort(Tail(s)))

\* str::starts_with
starts_with(path, prefix) ==
    /\ Len(path) >= Len(prefix)
    /\ SubSeq(path, 1, Len(prefix)) = prefix

\* substring::Substring::substring(start, end), 0-based, end exclusive
substring(s, start, end) == SubSeq(s, start + 1, end)

Range(s) == { s[i] : i \in DOMAIN s }


\* the identifiers of an order: the distinct requested names, ascending
RECURSIVE Dedup(_)
Dedup(s) ==
    IF Len(s) <= 1 THEN s
    ELSE IF s[1] = s[2] THEN Dedup(Tail(s))
    ELSE << s[1] >> \o Dedup(Tail(s))

(***************************************************************************)
(* Errors: the variant of super::Error and its category tag ("" for        *)
(* NotFound, which carries only a message).                                *)
(***************************************************************************)
Error(k, c) == [kind |-> k, category |-> c]
NoError == Error("none", "")

(***************************************************************************)
(* The certificate entry of the current configuration and what             *)
(* Certificate::new makes of its PEM text.                                 *)
(***************************************************************************)
\* no entry under the name
NoEntry == [present |-> FALSE, form |-> "none", valid |-> FALSE, domains |-> << >>]
\* an entry whose tls_cert is None ("none"), unparseable ("garbage") or a
\* certificate ("x509") that is within its validity period or not
Entry(f, v, ds) == [present |-> TRUE, form |-> f, valid |-> v, domains |-> ds]

CurrentEntries ==
    { NoEntry, Entry("none", FALSE, << >>), Entry("garbage", FALSE, << >>) }
    \cup { Entry("x509", v, ds) : v \in BOOLEAN, ds \in DomainLists }

NoLookup == [kind |-> "none", valid |-> FALSE, domains |-> << >>]

\* get_lets_encrypt_certificate(name), given the entry of the name in
\* get_current_config()
get_lets_encrypt_certificate(entry) ==
    IF ~entry.present
    THEN [kind |-> "NotFound", valid |-> FALSE, domains |-> << >>]
    ELSE IF entry.form # "x509"
    THEN [kind |-> "Fail", valid |-> FALSE, domains |-> << >>]
    ELSE [kind |-> "Ok", valid |-> entry.valid, domains |-> entry.domains]

\* the should_renew of do_update_certificates
ShouldRenewUnsorted(certificate, domains) ==
    IF certificate.kind = "Ok"
    THEN (~certificate.valid) \/ (domains # certificate.domains)
    ELSE TRUE

ShouldRenew(certificate, domains) ==
    IF certificate.kind = "Ok"
    THEN LET needs_renewal == ~certificate.valid
             domains_changed == Sort(domains) # Sort(certificate.domains)
         IN  needs_renewal \/ domains_changed
    ELSE TRUE

(***************************************************************************)
(* State.                                                                  *)
(***************************************************************************)
VARIABLES
    count,              \* the counter the host passed to the current call
    params,             \* the (name, domains) list of the service
    storage_configured, \* get_config_storage() is Some
    pc,                 \* position of the renewal task
    idx,                \* index in params of the target being processed
    evaluated,          \* indexes evaluated during the current call, in order
    results,            \* per target of the current call: skip, ok, err
    ret,                \* what the last call returned
    lookup,             \* get_lets_encrypt_certificate's result at the decision
    should_renew,       \* the decision for the current target
    inflight,           \* targets whose renew_certificate has not returned
    session,            \* the locals of new_lets_encrypt (order session)
    err,                \* the error renew_certificate returned, if any
    events,             \* external operations of the current attempt, in order
    sleeps,             \* delays slept in the order polling loop, in ms
    storage,            \* challenge storage: path -> bytes
    loaded,             \* the PingapConf load_config returned
    conf,               \* the PingapConf held by update_certificate_lets_encrypt
    saved,              \* the save_config call of the current attempt
    notifications,      \* webhook notifications of the current attempt
    reloaded,           \* certificates handed to try_update_certificates
    http,               \* the last request to handle_lets_encrypt and its outcome
    retry_due           \* targets whose renewal failed in the last sweep that
                        \* ran and that were not evaluated since

vars == << count, params, storage_configured, pc, idx, evaluated, results, ret,
           lookup, should_renew, inflight, session, err, events, sleeps,
           storage, loaded, conf, saved, notifications, reloaded, http,
           retry_due >>

schedVars == << count, params, storage_configured, evaluated >>
cfgVars == << loaded, conf, saved, notifications, reloaded >>
attemptVars == << session, err, events, sleeps, cfgVars >>

\* rcgen::KeyPair::generate(): a fresh key, told apart by the attempt that
\* made it
NoKey == [generated |-> FALSE, count |-> 0, idx |-> 0]
KeyPair(c, i) == [generated |-> TRUE, count |-> c, idx |-> i]
\* params.serialize_request(&private_key): the names and the key
NoCsr == [built |-> FALSE, names |-> << >>, key |-> NoKey]
Csr(ns, k) == [built |-> TRUE, names |-> ns, key |-> k]
\* the chain the issuer signs for a CSR, as PEM
NoChain == [issued |-> FALSE, names |-> << >>, key |-> NoKey]
Chain(csr) == [issued |-> TRUE, names |-> csr.names, key |-> csr.key]
\* KeyPair::serialize_pem
serialize_pem(k) == [pem |-> "PRIVATE KEY", key |-> k]

\* Option<String> fields of a certificate entry of PingapConf
None == [some |-> FALSE, v |-> NoChain]
Some(x) == [some |-> TRUE, v |-> x]
NoneKey == [some |-> FALSE, v |-> serialize_pem(NoKey)]

\* the certificate entries load_config may find
OldKey == KeyPair(0 - 1, 0)
ConfEntries ==
    { [domains |-> AllDescending, tls_cert |-> None, tls_key |-> NoneKey],
      [domains |-> << 1 >>,
       tls_cert |-> Some(Chain(Csr(<< 1 >>, OldKey))),
       tls_key |-> Some(serialize_pem(OldKey))] }
CertNames == { "n1", "n2" }
\* the configurations load_config may return
LoadedConfs ==
    { [loaded |-> TRUE, certificates |-> c, rest |-> "servers"] :
        c \in UNION { [S -> ConfEntries] : S \in SUBSET CertNames } }

NoConf == [loaded |-> FALSE, certificates |-> << >>, rest |-> ""]
NoSave == [done |-> FALSE, conf |-> NoConf, category |-> "", name |-> ""]
NoRequest ==
    [ served |-> FALSE, path |-> << >>, storage |-> << >>, readable |-> FALSE,
      sent |-> FALSE,
      response |-> [kind |-> "none", status |-> 0, body |-> << >>, loads |-> 0] ]
NoReload == [done |-> FALSE, certificates |-> << >>, errors |-> FALSE]

\* the locals of new_lets_encrypt.  order_status is what order.state()
\* reads: the status the order handle holds, set by new_order and replaced
\* only by order.refresh(); state is the result of the polling loop
EmptySession ==
    [ domains |-> << >>,
      order_status |-> "none",
      authorizations |-> << >>,
      ai |-> 0,
      challenges |-> << >>,
      ready |-> << >>,
      tries |-> 0,
      delay |-> 0,
      state |-> "none",
      names |-> << >>,
      private_key |-> NoKey,
      csr |-> NoCsr,
      finalized |-> FALSE,
      cert_polls |-> 0,
      cert_chain_pem |-> NoChain ]

Init ==
    /\ count = 0
    /\ params \in ParamsChoices
    /\ storage_configured \in BOOLEAN
    /\ pc = "call"
    /\ idx = 0
    /\ evaluated = << >>
    /\ results = << >>
    /\ ret = "none"
    /\ lookup = NoLookup
    /\ should_renew = FALSE
    /\ inflight = {}
    /\ session = EmptySession
    /\ err = NoError
    /\ events = << >>
    /\ sleeps = << >>
    /\ storage = << >>
    /\ loaded = NoConf
    /\ conf = NoConf
    /\ saved = NoSave
    /\ notifications = << >>
    /\ reloaded = NoReload
    /\ http = NoRequest
    /\ retry_due = {}

(***************************************************************************)
(* The renewal task: do_update_certificates.                               *)
(***************************************************************************)
Ev(op, id) == [op |-> op, id |-> id]

\* the end of one iteration of `for (name, domains) in params.iter()`: the
\* next target, or `Ok(true)` after the last one
NextTargetReportsAttempts(res) ==
    /\ results' = Append(results, res)
    /\ inflight' = inflight \ { idx }
    /\ IF idx < Len(params)
       THEN /\ pc' = "loop"
            /\ idx' = idx + 1
            /\ ret' = ret
       ELSE /\ pc' = "returned"
            /\ idx' = idx
            /\ ret' = IF \E i \in DOMAIN results' : results'[i] # "skip"
                      THEN "Ok(true)" ELSE "Ok(false)"

NextTarget(res) ==
    /\ results' = Append(results, res)
    /\ inflight' = inflight \ { idx }
    /\ IF idx < Len(params)
       THEN /\ pc' = "loop"
            /\ idx' = idx + 1
            /\ ret' = ret
       ELSE /\ pc' = "returned"
            /\ idx' = idx
            /\ ret' = "Ok(true)"

\* renew_certificate returned Err(e): logged, and the loop goes on
RenewFailed(e) ==
    /\ err' = e
    /\ NextTarget("err")

\* a step of the renewal that touches nothing but the attempt
Step == UNCHANGED << schedVars, lookup, should_renew, storage, http,
                    retry_due >>

\* the host's periodic call with the next counter value; the locals of the
\* call that returned are gone
host_tick ==
    /\ pc = "returned"
    /\ count < MaxCount
    /\ count' = count + 1
    /\ pc' = "call"
    /\ evaluated' = << >>
    /\ results' = << >>
    /\ ret' = "none"
    /\ session' = EmptySession
    /\ err' = NoError
    /\ events' = << >>
    /\ sleeps' = << >>
    /\ loaded' = NoConf
    /\ conf' = NoConf
    /\ saved' = NoSave
    /\ notifications' = << >>
    /\ reloaded' = NoReload
    /\ retry_due' = IF count % UPDATE_INTERVAL = 0
                      THEN { i \in DOMAIN results : results[i] = "err" }
                      ELSE retry_due
    /\ UNCHANGED << params, storage_configured, idx, lookup, should_renew,
                    inflight, storage, http >>

\* the interval gate at the head of do_update_certificates
do_update_certificates ==
    /\ pc = "call"
    /\ IF count % UPDATE_INTERVAL # 0
       THEN pc' = "returned" /\ ret' = "Ok(false)" /\ idx' = idx
       ELSE IF params = << >>
       THEN pc' = "returned" /\ ret' = "Ok(true)" /\ idx' = idx
       ELSE pc' = "loop" /\ ret' = ret /\ idx' = 1
    /\ UNCHANGED << schedVars, results, lookup, should_renew, inflight,
                    attemptVars, storage, http, retry_due >>

\* the renewal decision for params[idx]; the locals of the previous attempt
\* are gone
evaluate_target ==
    /\ pc = "loop"
    /\ \E entry \in CurrentEntries :
          LET certificate == get_lets_encrypt_certificate(entry) IN
          /\ lookup' = certificate
          /\ should_renew' = ShouldRenew(certificate, params[idx].domains)
    /\ evaluated' = Append(evaluated, idx)
    /\ pc' = "decided"
    /\ session' = EmptySession
    /\ err' = NoError
    /\ events' = << >>
    /\ sleeps' = << >>
    /\ loaded' = NoConf
    /\ conf' = NoConf
    /\ saved' = NoSave
    /\ notifications' = << >>
    /\ reloaded' = NoReload
    /\ retry_due' = retry_due \ { idx }
    /\ UNCHANGED << count, params, storage_configured, idx, results, ret,
                    inflight, storage, http >>

\* `if !should_renew { continue }`, else renew_certificate ->
\* update_certificate_lets_encrypt -> new_lets_encrypt(domains, true), up to
\* Account::create
renew_or_continue ==
    /\ pc = "decided"
    /\ lookup' = NoLookup
    /\ IF ~should_renew
       THEN /\ NextTarget("skip")
            /\ UNCHANGED << attemptVars >>
       ELSE /\ pc' = "create_account"
            /\ inflight' = inflight \cup { idx }
            /\ session' = [session EXCEPT !.domains = Sort(params[idx].domains)]
            /\ UNCHANGED << idx, results, ret, err, events, sleeps, cfgVars >>
    /\ UNCHANGED << schedVars, should_renew, storage, http, retry_due >>

(***************************************************************************)
(* new_lets_encrypt.                                                       *)
(***************************************************************************)
\* Account::create(..).await
create_account ==
    /\ pc = "create_account"
    /\ events' = Append(events, Ev("create_account", 0))
    /\ \E ok \in BOOLEAN :
          IF ok
          THEN /\ pc' = "new_order"
               /\ UNCHANGED << idx, results, ret, inflight, err >>
          ELSE RenewFailed(Error("Instant", "create_account"))
    /\ UNCHANGED << session, sleeps, cfgVars >>
    /\ Step

\* account.new_order(..).await, then the check that the order is Pending
new_order ==
    /\ pc = "new_order"
    /\ events' = Append(events, Ev("new_order", 0))
    /\ \/ /\ RenewFailed(Error("Instant", "new_order"))
          /\ UNCHANGED session
       \/ \E status \in OrderStatuses :
             /\ session' = [session EXCEPT !.order_status = status]
             /\ IF status # "Pending"
                THEN RenewFailed(Error("Fail", "order_status"))
                ELSE /\ pc' = "authorizations"
                     /\ UNCHANGED << idx, results, ret, inflight, err >>
    /\ UNCHANGED << sleeps, cfgVars >>
    /\ Step

\* what the issuer may answer to order.authorizations(): one authorization
\* per identifier of the order, in any status, with or without an HTTP-01
\* challenge
Authorization(d, s, h) == [identifier |-> d, status |-> s, http01 |-> h]

AuthorizationLists(ids) ==
    { [i \in 1 .. Len(ids) |-> Authorization(ids[i], f[i][1], f[i][2])] :
        f \in [1 .. Len(ids) ->
                 { << s, h >> \in AuthorizationStatuses \X BOOLEAN :
                      s = "Pending" \/ h }] }

\* order.authorizations().await, then get_config_storage()
fetch_authorizations ==
    /\ pc = "authorizations"
    /\ events' = Append(events, Ev("authorizations", 0))
    /\ \/ /\ RenewFailed(Error("Instant", "authorizations"))
          /\ UNCHANGED session
       \/ \E authorizations \in AuthorizationLists(Dedup(session.domains)) :
             /\ session' = [session EXCEPT !.authorizations = authorizations,
                                           !.ai = 1]
             /\ IF ~storage_configured
                THEN RenewFailed(Error("NotFound", ""))
                ELSE /\ pc' = "authz_loop"
                     /\ UNCHANGED << idx, results, ret, inflight, err >>
    /\ UNCHANGED << sleeps, cfgVars >>
    /\ Step

\* the challenge of an authorization: its token and url, chosen by the issuer
Token(d) == << "t", ToString(d) >>
ChallengeUrl(d) == << "c", "h", "a", "l", "l", "/", ToString(d) >>

\* order.key_authorization(challenge).as_str(): the token, a dot and the
\* thumbprint of the account key
key_authorization(token) == token \o << ".", "k" >>

\* super::get_token_path: the storage path of a token
get_token_path(token) == << "t", "o", "k", "e", "n", "s", "/" >> \o token

\* storage.save(path, bytes) on a storage that accepts it
Put(st, path, bytes) ==
    [x \in DOMAIN st \cup { path } |-> IF x = path THEN bytes ELSE st[x]]

\* the arms of `match authz.status`
AuthzArmIgnoreOther(status) ==
    IF status = "Pending" THEN "prepare" ELSE "continue"

AuthzArm(status) ==
    CASE status = "Pending" -> "prepare"
      [] status = "Valid" -> "continue"
      [] OTHER -> "todo"

\* `for authz in &authorizations` is over
AuthzLoopDoneEarly(ai, authorizations) == ai > 1

AuthzLoopDone(ai, authorizations) == ai > Len(authorizations)

\* `for (_, url) in &challenges` is over
ReadyLoopDone(s) == Len(s.ready) >= Len(s.challenges)

\* `let mut tries = 1u8; let mut delay = Duration::from_millis(250);`
EnterPoll(s) == [s EXCEPT !.tries = 1, !.delay = INITIAL_DELAY_MS]

\* where the task stands once authorization s.ai - 1 is dealt with
AfterAuthz(s) ==
    IF ~AuthzLoopDone(s.ai, s.authorizations) THEN << "authz_loop", s >>
    ELSE IF ReadyLoopDone(s) THEN << "poll", EnterPoll(s) >>
    ELSE << "set_ready", s >>

\* one iteration of `for authz in &authorizations`
prepare_challenge ==
    /\ pc = "authz_loop"
    /\ LET authz == session.authorizations[session.ai]
           arm == AuthzArm(authz.status)
           token == Token(authz.identifier)
           skipped == [session EXCEPT !.ai = @ + 1]
           pushed == [session EXCEPT
                        !.ai = @ + 1,
                        !.challenges =
                            Append(@, [identifier |-> authz.identifier,
                                       url |-> ChallengeUrl(authz.identifier)])]
       IN
       CASE arm = "continue" ->
              /\ pc' = AfterAuthz(skipped)[1]
              /\ session' = AfterAuthz(skipped)[2]
              /\ UNCHANGED << idx, results, ret, inflight, err, events, storage >>
         [] arm = "todo" ->
              \* todo!() panics: the task unwinds out of do_update_certificates
              /\ pc' = "panicked"
              /\ UNCHANGED << idx, results, ret, inflight, err, events, storage,
                              session >>
         [] arm = "prepare" /\ ~authz.http01 ->
              /\ RenewFailed(Error("NotFound", ""))
              /\ UNCHANGED << events, storage, session >>
         [] arm = "prepare" /\ authz.http01 ->
              /\ events' = Append(events, Ev("save_token", authz.identifier))
              /\ \E ok \in BOOLEAN :
                    IF ok
                    THEN /\ storage' = Put(storage, get_token_path(token),
                                           key_authorization(token))
                         /\ pc' = AfterAuthz(pushed)[1]
                         /\ session' = AfterAuthz(pushed)[2]
                         /\ UNCHANGED << idx, results, ret, inflight, err >>
                    ELSE /\ RenewFailed(Error("Fail", "save_token"))
                         /\ UNCHANGED << storage, session >>
    /\ UNCHANGED << schedVars, lookup, should_renew, http, sleeps, cfgVars,
                    retry_due >>

\* one iteration of `for (_, url) in &challenges`:
\* order.set_challenge_ready(url).await
set_challenge_ready ==
    /\ pc = "set_ready"
    /\ LET url == session.challenges[Len(session.ready) + 1].url
           signalled == [session EXCEPT !.ready = Append(@, url)]
       IN
       /\ events' = Append(events,
                           Ev("set_challenge_ready",
                              session.challenges[Len(session.ready) + 1].identifier))
       /\ \E ok \in BOOLEAN :
             IF ok
             THEN /\ IF ReadyLoopDone(signalled)
                     THEN pc' = "poll" /\ session' = EnterPoll(signalled)
                     ELSE pc' = "set_ready" /\ session' = signalled
                  /\ UNCHANGED << idx, results, ret, inflight, err >>
             ELSE /\ RenewFailed(Error("Instant", "set_challenge_ready"))
                  /\ UNCHANGED session
    /\ UNCHANGED << sleeps, cfgVars >>
    /\ Step

\* `if let OrderStatus::Ready | OrderStatus::Invalid | OrderStatus::Valid`
LoopBreaksOnAnyChange(status) == status # "Pending"

LoopBreaks(status) == status \in { "Ready", "Invalid", "Valid" }

\* `match tries < 10`
TriesLeftOffByTwo(tries) == tries < MAX_TRIES + 2

TriesLeft(tries) == tries < MAX_TRIES

\* the loop sees a final status in order.state(): `break state`, then the
\* check for Invalid
poll_break ==
    /\ pc = "poll"
    /\ LoopBreaks(session.order_status)
    /\ session' = [session EXCEPT !.state = session.order_status]
    /\ IF session.order_status = "Invalid"
       THEN RenewFailed(Error("Fail", "order_invalid"))
       ELSE /\ pc' = "csr"
            /\ UNCHANGED << idx, results, ret, inflight, err >>
    /\ UNCHANGED << events, sleeps, cfgVars >>
    /\ Step

\* the status is not final: order.refresh().await, `delay *= 2; tries += 1`
\* and the retry limit
refresh_order ==
    /\ pc = "poll"
    /\ ~LoopBreaks(session.order_status)
    /\ events' = Append(events, Ev("refresh_order", 0))
    /\ \/ /\ RenewFailed(Error("Instant", "refresh_order"))
          /\ UNCHANGED session
       \/ \E status \in OrderStatuses :
             /\ session' = [session EXCEPT !.order_status = status,
                                           !.delay = @ * 2,
                                           !.tries = @ + 1]
             /\ IF TriesLeft(session'.tries)
                THEN /\ pc' = "sleep"
                     /\ UNCHANGED << idx, results, ret, inflight, err >>
                ELSE RenewFailed(Error("Fail", "retry_too_many"))
    /\ UNCHANGED << sleeps, cfgVars >>
    /\ Step

\* tokio::time::sleep(delay).await at the end of the loop body
backoff_sleep ==
    /\ pc = "sleep"
    /\ sleeps' = Append(sleeps, session.delay)
    /\ pc' = "poll"
    /\ UNCHANGED << idx, results, ret, inflight, session, err, events, cfgVars >>
    /\ Step

\* `names` from `challenges`, CertificateParams::new, KeyPair::generate and
\* serialize_request
build_csr ==
    /\ pc = "csr"
    /\ LET names == [i \in 1 .. Len(session.challenges) |->
                        session.challenges[i].identifier]
           private_key == KeyPair(count, idx)
       IN
       \E outcome \in { "ok", "new_params", "generate_key_pair",
                        "serialize_request" } :
          /\ session' = [session EXCEPT
                           !.names = names,
                           !.private_key =
                               IF outcome \in { "ok", "serialize_request" }
                               THEN private_key ELSE @,
                           !.csr = IF outcome = "ok"
                                   THEN Csr(names, private_key) ELSE @]
          /\ IF outcome = "ok"
             THEN /\ pc' = "finalize"
                  /\ UNCHANGED << idx, results, ret, inflight, err >>
             ELSE RenewFailed(Error("Rcgen", outcome))
    /\ UNCHANGED << events, sleeps, cfgVars >>
    /\ Step

\* order.finalize(csr.der()).await
order_finalize ==
    /\ pc = "finalize"
    /\ events' = Append(events, Ev("order_finalize", 0))
    /\ session' = [session EXCEPT !.finalized = TRUE]
    /\ \E ok \in BOOLEAN :
          IF ok
          THEN /\ pc' = "certificate"
               /\ UNCHANGED << idx, results, ret, inflight, err >>
          ELSE RenewFailed(Error("Instant", "order_finalize"))
    /\ UNCHANGED << sleeps, cfgVars >>
    /\ Step

\* one iteration of the certificate loop: order.certificate().await, and a
\* sleep of one second on None
order_certificate ==
    /\ pc = "certificate"
    /\ events' = Append(events, Ev("order_certificate", 0))
    /\ \/ /\ RenewFailed(Error("Instant", "order_certificate"))
          /\ UNCHANGED session
       \/ /\ session.cert_polls < MaxCertPolls
          /\ session' = [session EXCEPT !.cert_polls = @ + 1]
          /\ UNCHANGED << pc, idx, results, ret, inflight, err >>
       \/ /\ session' = [session EXCEPT !.cert_chain_pem = Chain(session.csr)]
          /\ pc' = "load_config"
          /\ UNCHANGED << idx, results, ret, inflight, err >>
    /\ UNCHANGED << sleeps, cfgVars >>
    /\ Step

(***************************************************************************)
(* update_certificate_lets_encrypt after new_lets_encrypt, and             *)
(* handle_successful_renewal.                                              *)
(***************************************************************************)
\* `if let Some(cert) = conf.certificates.get_mut(name)`
SetCertificateOfAll(c, name, pem, key) ==
    [c EXCEPT !.certificates =
        [n \in DOMAIN c.certificates |->
            [c.certificates[n] EXCEPT !.tls_cert = Some(pem),
                                      !.tls_key = Some(key)]]]

SetCertificate(c, name, pem, key) ==
    IF name \in DOMAIN c.certificates
    THEN [c EXCEPT !.certificates[name].tls_cert = Some(pem),
                   !.certificates[name].tls_key = Some(key)]
    ELSE c

\* what is left of new_lets_encrypt once it has returned Ok((pem, key)): the
\* pair, bound to (pem, key) in update_certificate_lets_encrypt
Returned(s) ==
    [EmptySession EXCEPT !.cert_chain_pem = s.cert_chain_pem,
                         !.private_key = s.private_key]

\* load_config(..).await and the update of the named entry
load_config_IgnoringFailure ==
    /\ pc = "load_config"
    /\ session' = Returned(session)
    /\ events' = << Ev("load_config", 0) >>
    /\ sleeps' = << >>
    /\ \/ /\ loaded' = NoConf
          /\ conf' = NoConf
       \/ \E c \in LoadedConfs :
             /\ loaded' = c
             /\ conf' = SetCertificate(c, params[idx].name,
                                       session.cert_chain_pem,
                                       serialize_pem(session.private_key))
    /\ pc' = "save_config"
    /\ UNCHANGED << idx, results, ret, inflight, err >>
    /\ UNCHANGED << saved, notifications, reloaded >>
    /\ Step

load_config ==
    /\ pc = "load_config"
    /\ session' = Returned(session)
    /\ events' = << Ev("load_config", 0) >>
    /\ sleeps' = << >>
    /\ \/ /\ RenewFailed(Error("Fail", "load_config"))
          /\ UNCHANGED << loaded, conf >>
       \/ \E c \in LoadedConfs :
             /\ loaded' = c
             /\ conf' = SetCertificate(c, params[idx].name,
                                       session.cert_chain_pem,
                                       serialize_pem(session.private_key))
             /\ pc' = "save_config"
             /\ UNCHANGED << idx, results, ret, inflight, err >>
    /\ UNCHANGED << saved, notifications, reloaded >>
    /\ Step

\* save_config(&conf, CATEGORY_CERTIFICATE, Some(name)).await
save_config ==
    /\ pc = "save_config"
    /\ events' = Append(events, Ev("save_config", 0))
    /\ \E ok \in BOOLEAN :
          IF ok
          THEN /\ saved' = [done |-> TRUE, conf |-> conf,
                            category |-> "certificate",
                            name |-> params[idx].name]
               /\ pc' = "renewed"
               /\ UNCHANGED << idx, results, ret, inflight, err >>
          ELSE /\ RenewFailed(Error("Fail", "load_config"))
               /\ UNCHANGED saved
    /\ UNCHANGED << session, sleeps, loaded, conf, notifications, reloaded >>
    /\ Step

Notification(c, l) == [category |-> c, level |-> l]

\* the notifications of handle_successful_renewal: the success one, and the
\* parse failure one `if !errors.is_empty()`
RenewalNotificationsSuccessOnly(errors_is_empty) ==
    << Notification("LetsEncrypt", "Info") >>

RenewalNotifications(errors_is_empty) ==
    IF errors_is_empty
    THEN << Notification("LetsEncrypt", "Info") >>
    ELSE << Notification("LetsEncrypt", "Info"),
            Notification("ParseCertificateFail", "Error") >>

\* handle_successful_renewal(domains, &conf), then Ok(()) from
\* renew_certificate
handle_successful_renewal ==
    /\ pc = "renewed"
    /\ events' = Append(events, Ev("send_notification", 0))
    /\ \E errors_is_empty \in BOOLEAN :
          /\ reloaded' = [done |-> TRUE, certificates |-> conf.certificates,
                          errors |-> ~errors_is_empty]
          /\ notifications' = RenewalNotifications(errors_is_empty)
    /\ NextTarget("ok")
    /\ UNCHANGED << session, err, sleeps, loaded, conf, saved >>
    /\ Step

(***************************************************************************)
(* The HTTP-01 responder: handle_lets_encrypt.                             *)
(***************************************************************************)
\* the request paths tried: the challenge path of every token the issuer
\* may hand out, of a token nobody saved, of the empty token, and paths
\* that do not start with the prefix
RequestPaths ==
    { WELL_KNOWN_PATH_PREFIX \o Token(d) : d \in Domains }
    \cup { WELL_KNOWN_PATH_PREFIX \o << "x" >>,
           WELL_KNOWN_PATH_PREFIX,
           SubSeq(WELL_KNOWN_PATH_PREFIX, 1, Len(WELL_KNOWN_PATH_PREFIX) - 1),
           << "/" >>,
           << "/", "v", "1" >> \o WELL_KNOWN_PATH_PREFIX \o Token(1) }

\* Storage::load(path): the bytes saved under the path, an error when there
\* are none or when the storage cannot be read
StorageLoad(st, path, readable) ==
    IF readable /\ path \in DOMAIN st
    THEN [ok |-> TRUE, value |-> st[path]]
    ELSE [ok |-> FALSE, value |-> << >>]

\* `path.substring(WELL_KNOWN_PATH_PREFIX.len(), path.len())`
TokenOfPathOffByOne(path) ==
    substring(path, Len(WELL_KNOWN_PATH_PREFIX) - 1, Len(path))

TokenOfPath(path) == substring(path, Len(WELL_KNOWN_PATH_PREFIX), Len(path))

\* the outcome of a request: what the handler returned (Ok(true), Ok(false),
\* Err of an internal error, Err of the failed send), the response it built
\* and the number of storage loads it made
Response(k, s, b, n) == [kind |-> k, status |-> s, body |-> b, loads |-> n]

\* handle_lets_encrypt(session, ctx) for a request of the given path;
\* `readable`: the storage answers the load, `sent`: the response could be
\* written to the client
HandleLetsEncrypt(path, st, configured, readable, sent) ==
    IF starts_with(path, WELL_KNOWN_PATH_PREFIX)
    THEN LET token == TokenOfPath(path)
             value == StorageLoad(st, get_token_path(token), readable)
         IN  IF ~configured
             THEN Response("Err", STATUS_INTERNAL_ERROR, << >>, 0)
             ELSE IF ~value.ok
             THEN Response("Err", STATUS_INTERNAL_ERROR, << >>, 1)
             ELSE IF ~sent
             THEN Response("ErrSend", STATUS_OK, value.value, 1)
             ELSE Response("Ok(true)", STATUS_OK, value.value, 1)
    ELSE Response("Ok(false)", 0, << >>, 0)

\* one request through handle_lets_encrypt; `http` keeps the request, the
\* storage as it was then, and the outcome
handle_lets_encrypt ==
    /\ \E path \in RequestPaths, readable \in BOOLEAN, sent \in BOOLEAN :
          http' = [ served |-> TRUE,
                    path |-> path,
                    storage |-> storage,
                    readable |-> readable,
                    sent |-> sent,
                    response |-> HandleLetsEncrypt(path, storage,
                                                   storage_configured,
                                                   readable, sent) ]
    /\ UNCHANGED << count, params, storage_configured, pc, idx, evaluated,
                    results, ret, lookup, should_renew, inflight, attemptVars,
                    storage, retry_due >>

(***************************************************************************)
(* Specifications.                                                         *)
(***************************************************************************)
Renewal ==
    \/ host_tick
    \/ do_update_certificates
    \/ evaluate_target
    \/ renew_or_continue
    \/ create_account
    \/ new_order
    \/ fetch_authorizations
    \/ prepare_challenge
    \/ set_challenge_ready
    \/ poll_break
    \/ refresh_order
    \/ backoff_sleep
    \/ build_csr
    \/ order_finalize
    \/ order_certificate
    \/ load_config
    \/ save_config
    \/ handle_successful_renewal

Next == Renewal

\* the renewal task alone
Spec == Init /\ [][Next]_vars

\* the renewal task when every awaited call returns: the task is polled
\* again after each await, so a step that can be taken is taken; the
\* certificate poll answers None at most MaxCertPolls times in a row
FairSpec == Spec /\ WF_vars(Next)

\* the part of the renewal task that writes the challenge storage: a call,
\* the decisions, and new_lets_encrypt up to the end of the token saves
\* (no later step of the task reads or writes the storage)
ChallengePreparation ==
    \/ do_update_certificates
    \/ evaluate_target
    \/ renew_or_continue
    \/ create_account
    \/ new_order
    \/ fetch_authorizations
    \/ prepare_challenge

NextHttp == ChallengePreparation \/ handle_lets_encrypt

\* the proxy's request path beside the token saves of the renewal task
SpecHttp == Init /\ [][NextHttp]_vars

(***************************************************************************)
(* Properties.                                                             *)
(***************************************************************************)
NumEvents(op) == Cardinality({ i \in DOMAIN events : events[i].op = op })
HasEvent(op) == \E i \in DOMAIN events : events[i].op = op
Count(d, s) == Cardinality({ i \in DOMAIN s : s[i] = d })
IsPermutation(a, b) ==
    /\ Len(a) = Len(b)
    /\ \A d \in Range(a) \cup Range(b) : Count(d, a) = Count(d, b)
PendingAuthorizations ==
    { a \in Range(session.authorizations) : a.status = "Pending" }
\* new_lets_encrypt has returned Ok and its locals are gone
AfterReturn == events # << >> /\ events[1].op = "load_config"

\* C1: on a count not divisible by 10 no target is evaluated and no
\* external operation happens; on a count divisible by 10 every target is
\* evaluated exactly once, in list order, by the time the call is over, and
\* a target is only evaluated while no renewal is in flight (at most one
\* order session at a time).
C1_SweepEvaluatesEveryTargetOnce ==
    /\ count % 10 # 0 =>
          /\ evaluated = << >>
          /\ events = << >>
          /\ results = << >>
          /\ ~saved.done
          /\ notifications = << >>
          /\ pc \in { "call", "returned" }
    /\ \A i \in DOMAIN evaluated : evaluated[i] = i
    /\ (count % 10 = 0 /\ pc \in { "returned", "panicked" }) =>
          Len(evaluated) = Len(params)
    /\ Cardinality(inflight) <= 1
    /\ pc \in { "loop", "decided" } => inflight = {}

\* C2: once the call is over, if the renewal of some target failed in any
\* way (an error of any step, or an authorization that is neither Pending
\* nor Valid), every target of the list has been evaluated and the call
\* returned Ok.
C2_FailureNeverAbortsTheSweep ==
    (\/ pc = "panicked"
     \/ (pc = "returned" /\ \E i \in DOMAIN results : results[i] = "err"))
    => /\ Len(evaluated) = Len(params)
       /\ ret = "Ok(true)"

\* C3, the decision: it is `renew` exactly when no certificate could be
\* read and parsed, or the certificate is not valid, or the configured
\* domains are not a permutation of the certificate's.
C3_RenewIff ==
    pc = "decided" =>
       (should_renew <=>
           \/ lookup.kind # "Ok"
           \/ ~lookup.valid
           \/ ~IsPermutation(params[idx].domains, lookup.domains))

\* C3: the renewal decision is `renew` if and only if the certificate is
\* unreadable, not valid, or its sorted domains differ from the sorted
\* configured ones; a valid certificate over a permutation of the
\* configured domains is skipped without any step of the order exchange,
\* and an unreadable or invalid one always starts the exchange.
C3_RenewalDecision ==
    /\ []C3_RenewIff
    /\ [][(/\ pc = "decided"
           /\ lookup.kind = "Ok"
           /\ lookup.valid
           /\ IsPermutation(params[idx].domains, lookup.domains))
          => (/\ pc' \in { "loop", "returned" }
              /\ results' = Append(results, "skip")
              /\ events' = << >>
              /\ inflight' = {})]_vars
    /\ [][(pc = "decided" /\ (lookup.kind # "Ok" \/ ~lookup.valid))
          => pc' = "create_account"]_vars

C3_Witness ==
    /\ pc = "decided"
    /\ lookup.kind = "Ok"
    /\ lookup.valid
    /\ lookup.domains # params[idx].domains
    /\ IsPermutation(params[idx].domains, lookup.domains)
    /\ ~should_renew

\* C4: within one order no challenge is signalled ready before the token of
\* every pending authorization of the order has been saved; the order is
\* refreshed (polled) only after every prepared challenge has been signalled
\* ready; and when a token save fails no challenge is signalled ready.
C4_ReadyOnlyAfterAllTokensSaved ==
    /\ \A i, j \in DOMAIN events :
          (events[i].op = "set_challenge_ready" /\ events[j].op = "save_token")
          => j < i
    /\ HasEvent("set_challenge_ready") =>
          \A a \in PendingAuthorizations :
             /\ Ev("save_token", a.identifier) \in Range(events)
             /\ get_token_path(Token(a.identifier)) \in DOMAIN storage
    /\ \A i, j \in DOMAIN events :
          (events[i].op = "refresh_order" /\ events[j].op = "set_challenge_ready")
          => j < i
    /\ (pc \in { "poll", "sleep" } \/ HasEvent("refresh_order")) =>
          \A a \in PendingAuthorizations :
             Ev("set_challenge_ready", a.identifier) \in Range(events)
    /\ err.category = "save_token" => ~HasEvent("set_challenge_ready")

C4_Witness ==
    /\ pc = "poll"
    /\ Len(session.ready) >= 2
    /\ NumEvents("save_token") = Len(session.ready)

\* C5: the polling loop refreshes the order at most 10 times and sleeps at
\* most 10 times; it is still running only while fewer than 10 refreshes
\* were made; and when no refresh failed and the loop did not stop on a
\* status, the attempt has ended with retry_too_many after its last refresh.
C5_PollingLoopBounded ==
    /\ NumEvents("refresh_order") <= 10
    /\ Len(sleeps) <= 10
    /\ pc \in { "poll", "sleep" } => NumEvents("refresh_order") < 10
    /\ err.category = "retry_too_many" =>
          /\ err.kind = "Fail"
          /\ pc \notin { "poll", "sleep" }
          /\ session.state = "none"
    /\ (NumEvents("refresh_order") >= 9 /\ err.category # "refresh_order") =>
          err.category = "retry_too_many"

C5_Witness ==
    /\ err.category = "retry_too_many"
    /\ session.order_status = "Pending"
    /\ NumEvents("refresh_order") = 9

\* C6: the delays slept in the polling loop start at 250ms and each next
\* one is exactly double the one before.
C6_BackoffStartsAt250AndDoubles ==
    /\ sleeps # << >> => sleeps[1] = 250
    /\ \A i \in 1 .. Len(sleeps) - 1 : sleeps[i + 1] = 2 * sleeps[i]

\* C7: when the first poll of the order reports Ready and the first
\* certificate retrieval returns the chain, new_lets_encrypt returns the
\* pair without having slept in the polling loop.
C7_ReadyOnFirstPollSkipsBackoff ==
    (/\ pc = "load_config"
     /\ session.cert_chain_pem.issued
     /\ session.state = "Ready"
     /\ NumEvents("refresh_order") <= 1
     /\ session.cert_polls = 0)
    => sleeps = << >>

\* C8: a key pair, a CSR, a finalize request and a certificate exist only
\* after the polling loop stopped on Ready or Valid; when it stopped on
\* Invalid the attempt failed with order_invalid and none of them exists.
C8_FinalizeOnlyAfterReadyOrValid ==
    /\ (/\ ~AfterReturn
        /\ \/ session.private_key.generated
           \/ session.csr.built
           \/ session.finalized
           \/ session.cert_chain_pem.issued
           \/ pc \in { "csr", "finalize", "certificate", "load_config" })
       => session.state \in { "Ready", "Valid" }
    /\ session.state = "Invalid" =>
          /\ err = Error("Fail", "order_invalid")
          /\ ~session.private_key.generated
          /\ ~session.csr.built
          /\ ~session.finalized
          /\ ~session.cert_chain_pem.issued
          /\ ~HasEvent("order_finalize")
          /\ pc \in { "loop", "decided", "returned", "call" }

C8_Witness ==
    /\ session.finalized
    /\ session.private_key.generated
    /\ session.state = "Ready"

\* what C9 speaks of, for the last request served
C9_HasPrefix ==
    /\ Len(http.path) >= Len(WELL_KNOWN_PATH_PREFIX)
    /\ \A i \in 1 .. Len(WELL_KNOWN_PATH_PREFIX) :
          http.path[i] = WELL_KNOWN_PATH_PREFIX[i]
C9_TokenPath ==
    get_token_path([i \in 1 .. Len(http.path) - Len(WELL_KNOWN_PATH_PREFIX) |->
                       http.path[i + Len(WELL_KNOWN_PATH_PREFIX)]])
C9_Saved == C9_TokenPath \in DOMAIN http.storage
C9_Available == storage_configured /\ http.readable

\* C9 as stated: (1) a request under the prefix for a saved token of value
\* v, with the storage available, gets status 200 and body v and is
\* reported handled; (2) under the prefix with the token never saved or the
\* storage unavailable, the result is an internal error 500; (3) without
\* the prefix the request is declined and the storage is not read.
C9_Claim ==
    http.served =>
       /\ (C9_HasPrefix /\ C9_Saved /\ C9_Available) =>
             /\ http.response.kind = "Ok(true)"
             /\ http.response.status = 200
             /\ http.response.body = http.storage[C9_TokenPath]
       /\ (C9_HasPrefix /\ ~(C9_Saved /\ C9_Available)) =>
             /\ http.response.kind = "Err"
             /\ http.response.status = 500
       /\ ~C9_HasPrefix =>
             /\ http.response.kind = "Ok(false)"
             /\ http.response.loads = 0

\* C9, amended: as C9_Claim, but in (1) the response of status 200 and body
\* v is reported handled only if it could be written to the client;
\* otherwise the error of the write is returned.
C9_ChallengeResponder ==
    http.served =>
       /\ (C9_HasPrefix /\ C9_Saved /\ C9_Available) =>
             /\ http.response.status = 200
             /\ http.response.body = http.storage[C9_TokenPath]
             /\ http.response.kind = IF http.sent THEN "Ok(true)" ELSE "ErrSend"
       /\ (C9_HasPrefix /\ ~(C9_Saved /\ C9_Available)) =>
             /\ http.response.kind = "Err"
             /\ http.response.status = 500
       /\ ~C9_HasPrefix =>
             /\ http.response.kind = "Ok(false)"
             /\ http.response.loads = 0

C9_Witness ==
    /\ http.served
    /\ http.path = WELL_KNOWN_PATH_PREFIX \o Token(1)
    /\ http.response.kind = "Ok(true)"
    /\ http.response.status = 200
    /\ http.response.body = key_authorization(Token(1))

\* C10: the CSR submitted at finalize names exactly the identifiers of the
\* authorizations of the order, whatever their mix of Pending and Valid.
C10_CsrNamesAllAuthorizedIdentifiers ==
    session.finalized =>
       /\ Range(session.csr.names) =
             { a.identifier : a \in Range(session.authorizations) }
       /\ Len(session.csr.names) = Len(session.authorizations)

\* C11: the configuration handed to save_config differs from the one
\* load_config returned in nothing but tls_cert and tls_key of the entry of
\* the target's name: same entries, the other entries equal, the named
\* entry's domains equal, the rest of the configuration equal; and the save
\* names the certificate category and the target's name.
C11_SaveChangesOnlyNamedPem ==
    /\ saved.done =>
          /\ saved.category = "certificate"
          /\ saved.conf.loaded /\ loaded.loaded
          /\ saved.conf.rest = loaded.rest
          /\ DOMAIN saved.conf.certificates = DOMAIN loaded.certificates
          /\ \A n \in DOMAIN loaded.certificates :
                /\ saved.conf.certificates[n].domains
                      = loaded.certificates[n].domains
                /\ n # saved.name =>
                      saved.conf.certificates[n] = loaded.certificates[n]
    /\ pc = "renewed" => saved.done /\ saved.name = params[idx].name

C11_Witness ==
    /\ pc = "renewed"
    /\ saved.done
    /\ DOMAIN loaded.certificates = CertNames
    /\ saved.conf.certificates[saved.name].tls_cert
          # loaded.certificates[saved.name].tls_cert

\* C12: the certificates are handed to the reload only after the save of
\* this attempt succeeded, and what is reloaded is what was saved; when the
\* reload reports errors, a ParseCertificateFail notification of level
\* Error follows the success notification, no second save is made, the
\* saved configuration stays as it was saved, and the target's result is
\* success.
C12_ReloadAfterSaveAndParseFailure ==
    /\ reloaded.done =>
          /\ saved.done
          /\ HasEvent("save_config")
          /\ reloaded.certificates = saved.conf.certificates
          /\ results # << >> /\ results[Len(results)] = "ok"
          /\ err = NoError
          /\ NumEvents("save_config") = 1
          /\ saved.conf = conf
    /\ (reloaded.done /\ reloaded.errors) =>
          notifications = << Notification("LetsEncrypt", "Info"),
                             Notification("ParseCertificateFail", "Error") >>
    /\ (reloaded.done /\ ~reloaded.errors) =>
          notifications = << Notification("LetsEncrypt", "Info") >>
    /\ ~reloaded.done => notifications = << >>

C12_Witness ==
    /\ reloaded.done
    /\ reloaded.errors
    /\ results[Len(results)] = "ok"
    /\ Len(notifications) = 2

\* the targets of the current call for which renewal was attempted
C13_Attempted == { i \in DOMAIN results : results[i] # "skip" }

\* C13 as stated: the result of a call is true if and only if renewal was
\* attempted for at least one target during the call.
C13_TrueIffRenewalAttempted ==
    pc = "returned" => (ret = "Ok(true)" <=> C13_Attempted # {})

\* C13, amended: the result of a call is true if and only if the count is
\* divisible by 10 (the sweep ran), whether or not any target needed
\* renewal, also for an empty target list; it is false on every other
\* count; and it is never an error.
C13_TrueIffQualifyingTick ==
    /\ pc = "returned" =>
          /\ ret \in { "Ok(true)", "Ok(false)" }
          /\ ret = "Ok(true)" <=> count % 10 = 0
          /\ C13_Attempted # {} => ret = "Ok(true)"
    /\ pc # "returned" => ret = "none"

C13_Witness ==
    /\ pc = "returned"
    /\ count % 10 = 0
    /\ Len(results) = 2
    /\ C13_Attempted = {}
    /\ ret = "Ok(true)"

\* the last awaited operation of the current attempt
C14_LastOp == IF events = << >> THEN "none" ELSE events[Len(events)].op

\* the categories that identify the step the current attempt failed at,
\* told from what the attempt had done when it failed
C14_StepCategories ==
    IF session.state = "Invalid" THEN { "order_invalid" }
    ELSE IF session.state \in { "Ready", "Valid" } /\ ~session.finalized
    THEN IF session.private_key.generated
         THEN { "serialize_request" }
         ELSE { "new_params", "generate_key_pair" }
    ELSE IF C14_LastOp = "new_order"
    THEN IF session.order_status = "none"
         THEN { "new_order" } ELSE { "order_status" }
    ELSE IF C14_LastOp = "refresh_order"
    THEN IF session.tries >= MAX_TRIES
         THEN { "retry_too_many" } ELSE { "refresh_order" }
    ELSE { C14_LastOp }

\* C14: an attempt that failed at one of the listed steps has an error with
\* a non-empty category, and the category is the one of the step that
\* failed (so no two steps share a category).
C14_CategoryIdentifiesFailedStep ==
    (err # NoError /\ err.kind # "NotFound") =>
       /\ err.category # ""
       /\ err.category \in C14_StepCategories

\* C15: on a qualifying tick after a sweep in which the renewal of a target
\* failed, that target has been evaluated again by the time the call is
\* over, its attempt (made whenever it still needs renewal) starts at
\* Account::create with none of the order, authorization, challenge, key
\* or polling state of an earlier attempt, and the first two operations of
\* an attempt are create_account and new_order.
C15_FailedTargetRetriedFromScratch ==
    /\ (count % 10 = 0 /\ pc \in { "returned", "panicked" }) =>
          retry_due = {}
    /\ pc = "create_account" =>
          /\ should_renew
          /\ session = [EmptySession EXCEPT
                           !.domains = Sort(params[idx].domains)]
          /\ events = << >>
          /\ sleeps = << >>
          /\ err = NoError
    /\ (events # << >> /\ ~AfterReturn) => events[1].op = "create_account"
    /\ (Len(events) >= 2 /\ ~AfterReturn) => events[2].op = "new_order"

\* the positions of the task inside renew_certificate
C16_InAttempt ==
    pc \in { "create_account", "new_order", "authorizations", "authz_loop",
             "set_ready", "poll", "sleep", "csr", "finalize", "certificate",
             "load_config", "save_config", "renewed" }

\* C16: when every awaited call returns and the certificate poll
\* eventually gets the chain or an error, every renewal attempt ends in
\* success or failure (a result for its target), and every sweep that
\* started ends with the call returned and every target evaluated.
C16_AttemptsAndSweepsEnd ==
    /\ \A i \in 1 .. 2 :
          (C16_InAttempt /\ idx = i /\ Len(results) = i - 1)
             ~> (Len(results) >= i /\ results[i] \in { "ok", "err" })
    /\ (pc = "call" /\ count % 10 = 0)
          ~> (pc = "returned" /\ Len(evaluated) = Len(params))

\* C17: an attempt ends with retry_too_many only if no order status it
\* obtained, the one of the last refresh included, was Ready, Valid or
\* Invalid.
C17_RetryExhaustionOnlyIfNeverTerminal ==
    err.category = "retry_too_many" =>
       session.order_status \notin { "Ready", "Valid", "Invalid" }

\* C18: when the success notification of a target has been sent, the
\* configuration saved by that renewal has, under the target's name, the
\* chain issued in this attempt as tls_cert and the PEM of the key
\* generated in this attempt as tls_key, whatever configuration was loaded.
C18_SuccessMeansCertificateStored ==
    notifications # << >> =>
       /\ saved.done
       /\ session.cert_chain_pem.issued
       /\ session.private_key.generated
       /\ session.private_key.count = count
       /\ saved.name \in DOMAIN saved.conf.certificates
       /\ saved.conf.certificates[saved.name].tls_cert
             = Some(session.cert_chain_pem)
       /\ saved.conf.certificates[saved.name].tls_key
             = Some(serialize_pem(session.private_key))

\* C19: an attempt that ended (with an error, or at the todo!()) without
\* having called save_config leaves no saved configuration, no
\* notification and no reload; and a configuration is saved only after the
\* chain was issued and load_config returned a configuration.
C19_FailureBeforeSaveLeavesNoTrace ==
    /\ ((err # NoError \/ pc = "panicked") /\ ~HasEvent("save_config")) =>
          /\ ~saved.done
          /\ notifications = << >>
          /\ ~reloaded.done
          /\ ~HasEvent("send_notification")
    /\ HasEvent("save_config") =>
          /\ loaded.loaded
          /\ session.cert_chain_pem.issued
          /\ session.private_key.generated
    /\ saved.done => HasEvent("save_config") /\ err = NoError

C19_Witness ==
    /\ err = Error("Fail", "load_config")
    /\ C14_LastOp = "load_config"
    /\ session.cert_chain_pem.issued
    /\ ~saved.done

\* the authorizations of the current order that are neither Pending nor Valid
C20_Other ==
    { i \in DOMAIN session.authorizations :
         session.authorizations[i].status \notin { "Pending", "Valid" } }

\* C20: when an authorization of the order is neither Pending nor Valid,
\* the loop over the authorizations never goes past it (the task stops
\* there), no challenge of the order is signalled ready, the order is not
\* polled, no key or CSR is made, no finalize is sent and no chain is
\* returned; the task stops in this way only at such an authorization; and
\* for an authorization that is already Valid no token is saved and no
\* readiness is signalled.
C20_OtherAuthorizationStatusIsFatal ==
    /\ \A i \in C20_Other : session.ai <= i
    /\ C20_Other # {} =>
          /\ session.ready = << >>
          /\ ~HasEvent("set_challenge_ready")
          /\ ~HasEvent("refresh_order")
          /\ ~HasEvent("order_finalize")
          /\ ~HasEvent("order_certificate")
          /\ ~session.private_key.generated
          /\ ~session.csr.built
          /\ ~session.cert_chain_pem.issued
          /\ pc \notin { "set_ready", "poll", "sleep", "csr", "finalize",
                         "certificate", "load_config", "save_config", "renewed" }
    /\ pc = "panicked" => session.ai \in C20_Other
    /\ \A i \in DOMAIN session.authorizations :
          session.authorizations[i].status = "Valid" =>
             LET d == session.authorizations[i].identifier IN
             /\ Ev("save_token", d) \notin Range(events)
             /\ Ev("set_challenge_ready", d) \notin Range(events)
             /\ \A j \in DOMAIN session.challenges :
                   session.challenges[j].identifier # d

C20_Witness ==
    /\ pc = "panicked"
    /\ session.ai = 2
    /\ session.authorizations[1].status = "Pending"
    /\ HasEvent("save_token")

=============================================================================
